---- MODULE Spec2Model ----
(***************************************************************************)
(* A model of tile-scrapper.py: tile addressing (deg2num), the tile plan   *)
(* (calculate_tile_count and the submission loop of main), the pre-flight  *)
(* benchmark, the confirmation gate, the thread pool and the per-tile job  *)
(* upload_tile with its existence check, retry loop and statistics.        *)
(*                                                                         *)
(* Degrees are carried as integers in half-degree units (94.5 deg = 189),  *)
(* so that the program's bounding box is exact.                            *)
(***************************************************************************)
EXTENDS Integers, Sequences, FiniteSets, TLC

(***************************************************************************)
(* Program constants.                                                      *)
(***************************************************************************)
DESTINATION_PREFIX == "raster"

\* [West, South, East, North] = [94.5, -11.5, 141.5, 6.0], in half-degrees.
BOUNDING_BOX == <<189, -23, 283, 12>>

MAX_RETRIES == 3

\* main calls benchmark_speed(num_samples=10).
NUM_SAMPLES == 10

\* The zoom levels benchmark_speed samples.
SAMPLE_ZOOMS == <<8, 10, 12>>

(***************************************************************************)
(* Bounds of the model.                                                    *)
(***************************************************************************)
\* --min-zoom / --max-zoom are drawn from 0..MaxZoomArg when the whole program
\* runs, and from 0..MaxPlanZoom when only the main thread's planning does.
MaxZoomArg == 1

MaxPlanZoom == 2

\* The plan sizes for which the whole program is explored: every job's history
\* multiplies the interleavings of the pool.
PlanSizes == {0, 1, 2}

\* --workers (MAX_WORKERS) is drawn from 1..MaxWorkersArg.
MaxWorkersArg == 2

\* Only the first MaxSamples benchmark samples are taken.
MaxSamples == 1

\* main is called at most MaxCalls times in one process.
MaxCalls == 2

(***************************************************************************)
(* Arithmetic helpers.                                                     *)
(***************************************************************************)
Min(a, b) == IF a <= b THEN a ELSE b

Max(a, b) == IF a >= b THEN a ELSE b

\* Python's int(a / b) on a float quotient, b > 0: truncation toward zero.
TruncDiv(a, b) == IF a >= 0 THEN a \div b ELSE -((-a) \div b)

RECURSIVE Pow2(_)
Pow2(z) == IF z = 0 THEN 1 ELSE 2 * Pow2(z - 1)

\* Fixed-point scale of the Mercator table below: 2^18.
MercScale == 262144

\* trunc(2^18 * (1 - asinh(tan(radians(lat))) / pi) / 2) for the latitudes the
\* model uses, keyed by the latitude in half-degrees.  At zoom <= 12 the tile
\* row computed from the table equals the one the float expression gives.
MercFrac(lat2) ==
    CASE lat2 = -170 -> 261714     \* -85.0
      [] lat2 = -23  -> 139502     \* -11.5
      [] lat2 = 0    -> 131072     \*   0.0
      [] lat2 = 12   -> 126694     \*   6.0
      [] lat2 = 170  -> 429        \*  85.0
      [] lat2 = 178  -> -66744     \*  89.0 (beyond the Web-Mercator limit)

\* deg2num(lat_deg, lon_deg, zoom) -> (xtile, ytile); arguments in half-degrees.
deg2num(lat2, lon2, zoom) ==
    LET n == Pow2(zoom)
        xtile == TruncDiv((lon2 + 360) * n, 720)
        ytile == TruncDiv(MercFrac(lat2) * n, MercScale)
    IN  <<xtile, ytile>>

(***************************************************************************)
(* The tile plan.                                                          *)
(***************************************************************************)
\* The body of the loop of calculate_tile_count for one zoom level: the entry
\* (z, count, start_x, end_x, start_y, end_y) it appends to details.
Detail(z, box) ==
    LET min_lon == box[1]
        min_lat == box[2]
        max_lon == box[3]
        max_lat == box[4]
        lo == deg2num(max_lat, min_lon, z)
        hi == deg2num(min_lat, max_lon, z)
        start_x == Min(lo[1], hi[1])
        end_x   == Max(lo[1], hi[1])
        start_y == Min(lo[2], hi[2])
        end_y   == Max(lo[2], hi[2])
    IN  [z |-> z,
         count |-> (end_x - start_x + 1) * (end_y - start_y + 1),
         start_x |-> start_x, end_x |-> end_x,
         start_y |-> start_y, end_y |-> end_y]

\* calculate_tile_count(min_zoom, max_zoom, bbox) -> (total, details).
RECURSIVE calculate_tile_count(_, _, _)
calculate_tile_count(min_zoom, max_zoom, box) ==
    IF min_zoom > max_zoom
    THEN [total |-> 0, details |-> <<>>]
    ELSE LET rest == calculate_tile_count(min_zoom, max_zoom - 1, box)
             d    == Detail(max_zoom, box)
         IN  [total |-> rest.total + d.count,
              details |-> Append(rest.details, d)]

\* range(a, b + 1) as a sequence.
RECURSIVE RangeSeq(_, _)
RangeSeq(a, b) == IF a > b THEN <<>> ELSE <<a>> \o RangeSeq(a + 1, b)

\* for y in range(start_y, end_y + 1): the tiles of one column.
RECURSIVE ColumnTiles(_, _, _)
ColumnTiles(z, x, ys) ==
    IF ys = <<>> THEN <<>>
    ELSE <<[z |-> z, x |-> x, y |-> Head(ys)]>> \o ColumnTiles(z, x, Tail(ys))

\* for x in range(start_x, end_x + 1): for y in ...: the tiles of one zoom.
RECURSIVE ZoomTiles(_, _, _)
ZoomTiles(z, xs, ys) ==
    IF xs = <<>> THEN <<>>
    ELSE ColumnTiles(z, Head(xs), ys) \o ZoomTiles(z, Tail(xs), ys)

\* LoopTiles with the inner loop one short: range(start_y, end_y).
LoopTiles_exclusive(z, box) ==
    LET lo == deg2num(box[4], box[1], z)
        hi == deg2num(box[2], box[3], z)
    IN  ZoomTiles(z, RangeSeq(Min(lo[1], hi[1]), Max(lo[1], hi[1])),
                     RangeSeq(Min(lo[2], hi[2]), Max(lo[2], hi[2]) - 1))

\* The body of the loop of main for one zoom level: it computes the rectangle
\* itself and walks it.
LoopTiles(z, box) ==
    LET min_lon == box[1]
        min_lat == box[2]
        max_lon == box[3]
        max_lat == box[4]
        lo == deg2num(max_lat, min_lon, z)
        hi == deg2num(min_lat, max_lon, z)
        start_x == Min(lo[1], hi[1])
        end_x   == Max(lo[1], hi[1])
        start_y == Min(lo[2], hi[2])
        end_y   == Max(lo[2], hi[2])
    IN  ZoomTiles(z, RangeSeq(start_x, end_x), RangeSeq(start_y, end_y))

\* The (z, x, y) the loop of main submits, in submission order.
RECURSIVE SubmitOrder(_, _, _)
SubmitOrder(min_zoom, max_zoom, box) ==
    IF min_zoom > max_zoom THEN <<>>
    ELSE LoopTiles(min_zoom, box) \o SubmitOrder(min_zoom + 1, max_zoom, box)

\* The decimal digits, as the characters str() writes.
DigitChars == <<"0", "1", "2", "3", "4", "5", "6", "7", "8", "9">>

\* The digits of n >= 0, most significant first.
RECURSIVE Digits(_)
Digits(n) ==
    IF n < 10 THEN <<DigitChars[n + 1]>>
    ELSE Digits(n \div 10) \o <<DigitChars[(n % 10) + 1]>>

\* How an f-string writes the int n: a minus sign when negative, then digits.
\* A string is carried as the sequence of its pieces.
FormatInt(n) == IF n < 0 THEN <<"-">> \o Digits(-n) ELSE Digits(n)

\* S3Key with the zoom directory left out: "{DESTINATION_PREFIX}/{x}/{y}.png".
S3Key_noZoom(t) ==
    <<DESTINATION_PREFIX, "/">> \o FormatInt(t.x) \o <<"/">>
        \o FormatInt(t.y) \o <<".png">>

\* upload_tile: s3_key = f"{DESTINATION_PREFIX}/{z}/{x}/{y}.png"
S3Key(t) ==
    <<DESTINATION_PREFIX, "/">> \o FormatInt(t.z) \o <<"/">>
        \o FormatInt(t.x) \o <<"/">> \o FormatInt(t.y) \o <<".png">>

\* benchmark_speed: s3_key = f"{DESTINATION_PREFIX}/{z}/{x}/{y}.png"
BenchKey(t) ==
    <<DESTINATION_PREFIX>> \o <<"/">> \o FormatInt(t.z) \o <<"/">>
        \o FormatInt(t.x) \o <<"/">> \o FormatInt(t.y) \o <<".png">>

\* The sample tiles benchmark_speed builds for one zoom level.
ZoomSamples(z, box) ==
    LET c1 == deg2num(box[4], box[1], z)
        c2 == deg2num(box[2], box[3], z)
        mid_x == (c1[1] + c2[1]) \div 2
        mid_y == (c1[2] + c2[2]) \div 2
    IN  << [z |-> z, x |-> mid_x,     y |-> mid_y],
           [z |-> z, x |-> mid_x + 1, y |-> mid_y],
           [z |-> z, x |-> mid_x,     y |-> mid_y + 1] >>

\* sample_tiles after the loop over [8, 10, 12] with its early break.
RECURSIVE CollectSamples(_, _, _, _)
CollectSamples(i, acc, num_samples, box) ==
    IF i > Len(SAMPLE_ZOOMS) \/ (i > 1 /\ Len(acc) >= num_samples)
    THEN acc
    ELSE CollectSamples(i + 1, acc \o ZoomSamples(SAMPLE_ZOOMS[i], box),
                        num_samples, box)

\* sample_tiles[:num_samples]
SampleTiles(num_samples, box) ==
    LET all == CollectSamples(1, <<>>, num_samples, box)
    IN  SubSeq(all, 1, Min(num_samples, Len(all)))

(***************************************************************************)
(* State.                                                                  *)
(***************************************************************************)
VARIABLES
    cfg,          \* which of AWS_ACCESS_KEY_ID, AWS_S3_BUCKET, SOURCE_URL_PATTERN are set
    bbox,         \* BOUNDING_BOX
    MIN_ZOOM,     \* args.min_zoom
    MAX_ZOOM,     \* args.max_zoom
    MAX_WORKERS,  \* args.workers
    NO_CONFIRM,   \* args.no_confirm
    dry_run,      \* args.dry_run
    pc,           \* position of the main thread
    total_tiles,  \* total returned by calculate_tile_count
    details,      \* details returned by calculate_tile_count
    times,        \* len(times) of benchmark_speed: the samples that were timed
    bench,        \* what benchmark_speed did, one entry per sample
    estimate,     \* what main printed about avg_time
    stats,        \* the four counters
    stats_lock,   \* the job holding stats_lock, 0 when it is free
    pbar,         \* the tqdm progress bar: total and n
    futures,      \* the submitted jobs, in submission order
    printed,      \* the counters as printed by the summary
    store,        \* keys present in the bucket
    store0,       \* the bucket as it was when main was last entered
    calls         \* how many times main has been called in this process

vars == <<cfg, bbox, MIN_ZOOM, MAX_ZOOM, MAX_WORKERS, NO_CONFIRM, dry_run, pc,
          total_tiles, details, times, bench, estimate, stats, stats_lock, pbar,
          futures, printed, store, store0, calls>>

argv == <<cfg, bbox, MIN_ZOOM, MAX_ZOOM, MAX_WORKERS, NO_CONFIRM, dry_run>>

\* stats = {"success": 0, "skipped": 0, "failed": 0, "not_found": 0}
ZeroStats == [success |-> 0, skipped |-> 0, failed |-> 0, not_found |-> 0]

Outcomes == {"success", "skipped", "failed", "not_found"}

\* What s3_client.head_object can do for a key, given the bucket.
HeadResults(key, bucket) ==
    (IF key \in bucket THEN {"exists"} ELSE {"404"})
        \cup {"client_error", "other_exception"}

\* What requests.get(url, timeout=15) can do.
SourceResults ==
    {"200", "200_empty", "404", "other_status", "timeout", "exception"}

\* The answers of requests.get after which upload_tile neither writes nor
\* returns: an empty 200, a status other than 200 and 404, a timeout, any
\* other exception.
Transient == {"200_empty", "other_status", "timeout", "exception"}

\* What s3_client.put_object can do.
PutResults == {"ok", "exception"}

\* A job as executor.submit creates it, with the history of what it has done.
NewJob(t) ==
    [tile     |-> t,
     pc       |-> "queued",
     key      |-> <<>>,       \* s3_key, once upload_tile has formatted it
     attempt  |-> 0,          \* the loop variable of upload_tile
     head     |-> "none",     \* what head_object did
     result   |-> "none",     \* the outcome upload_tile is about to return
     body     |-> "none",     \* content, while it is being written
     read     |-> -1,         \* stats[key] as read under stats_lock
     gets     |-> 0,          \* requests.get calls made
     puts     |-> 0,          \* put_object calls made
     wrote    |-> 0,          \* put_object calls that returned
     emptyPuts |-> 0,         \* put_object calls made with an empty Body
     sleeps   |-> 0,          \* time.sleep calls made
     got404   |-> FALSE,      \* the source has answered 404
     onlyTimeouts |-> TRUE,   \* every source call so far timed out
     transients |-> 0,        \* source calls that ended a pass without a return
     logs     |-> 0,          \* entries appended to missing_tiles.log
     warnings |-> 0,          \* [WARNING] lines printed to standard output
     reports  |-> 0,          \* update_stats calls made
     ticks    |-> 0]          \* pbar.update calls made

\* The state of a process right after the module is loaded and the arguments
\* are parsed, for given inputs and a given bucket.
ProcessStart(c, box, lo, hi, w, nc, dr, bucket) ==
    /\ cfg = c
    /\ bbox = box
    /\ MIN_ZOOM = lo
    /\ MAX_ZOOM = hi
    /\ MAX_WORKERS = w
    /\ NO_CONFIRM = nc
    /\ dry_run = dr
    /\ pc = "entry"
    /\ total_tiles = 0
    /\ details = <<>>
    /\ times = 0
    /\ bench = <<>>
    /\ estimate = "none"
    /\ stats = ZeroStats
    /\ stats_lock = 0
    /\ pbar = [total |-> 0, n |-> 0]
    /\ futures = <<>>
    /\ printed = ZeroStats
    /\ store = bucket
    /\ store0 = bucket
    /\ calls = 0

Configs == [key_id : BOOLEAN, bucket : BOOLEAN, url : BOOLEAN]

\* The program as shipped: its own bounding box, an empty bucket, and any
\* arguments whose plan fits the bound.
Init ==
    \E c \in Configs, lo \in 0..MaxZoomArg, hi \in 0..MaxZoomArg,
       w \in 1..MaxWorkersArg, nc \in BOOLEAN, dr \in BOOLEAN :
        /\ calculate_tile_count(lo, hi, BOUNDING_BOX).total \in PlanSizes
        /\ ProcessStart(c, BOUNDING_BOX, lo, hi, w, nc, dr, {})

(***************************************************************************)
(* The main thread.                                                        *)
(***************************************************************************)
\* __main__: with --dry-run only the tile count is computed and printed.
\* Nothing on this path looks at the configuration.
DryRun ==
    /\ pc = "entry"
    /\ dry_run
    /\ LET r == calculate_tile_count(MIN_ZOOM, MAX_ZOOM, bbox)
       IN  /\ total_tiles' = r.total
           /\ details' = r.details
    /\ pc' = "dry_done"
    /\ UNCHANGED <<argv, times, bench, estimate, stats, stats_lock, pbar,
                   futures, printed, store, store0, calls>>

\* main is called; it returns when the key id or the bucket is not set.
MainEnter ==
    /\ pc = "entry"
    /\ ~dry_run
    /\ calls' = calls + 1
    /\ pc' = IF ~cfg.key_id \/ ~cfg.bucket THEN "aborted_config" ELSE "plan"
    /\ UNCHANGED <<argv, total_tiles, details, times, bench, estimate,
                   stats, stats_lock, pbar, futures, printed, store, store0>>

\* main: total_tiles, details = calculate_tile_count(...), printed before any fetch.
MainPlan ==
    /\ pc = "plan"
    /\ LET r == calculate_tile_count(MIN_ZOOM, MAX_ZOOM, bbox)
       IN  /\ total_tiles' = r.total
           /\ details' = r.details
    /\ pc' = "benchmark"
    /\ UNCHANGED <<argv, times, bench, estimate, stats, stats_lock, pbar,
                   futures, printed, store, store0, calls>>

\* What one benchmark sample does: the source's answer and, when that is a
\* 200 and a write is made, the store's.
SampleResults ==
    { [get |-> g, put |-> p] : g \in {"200", "200_empty"}, p \in PutResults }
        \cup { [get |-> g, put |-> "none"] : g \in SourceResults \ {"200", "200_empty"} }

\* The body of the sample loop for tile t under answer r, on the running state
\* b = [times, log, store].  Any 200 is written, whatever its body; a sample
\* is timed unless something raised.
BenchStep(b, t, r) ==
    LET is200  == r.get \in {"200", "200_empty"}
        raised == r.get \in {"timeout", "exception"}
                    \/ (is200 /\ r.put = "exception")
        wrote  == is200 /\ r.put = "ok"
    IN  [times |-> IF raised THEN b.times ELSE b.times + 1,
         log   |-> Append(b.log, [tile |-> t, key |-> BenchKey(t),
                                  get |-> r.get, put |-> r.put]),
         store |-> IF wrote THEN b.store \cup {BenchKey(t)} ELSE b.store]

\* for z, x, y in sample_tiles: ... over the samples i..Len(ts).
RECURSIVE BenchLoop(_, _, _, _)
BenchLoop(b, ts, rs, i) ==
    IF i > Len(ts) THEN b
    ELSE BenchLoop(BenchStep(b, ts[i], rs[i]), ts, rs, i + 1)

\* if not times: return None, and what main prints for the value returned.
Estimate(n) == IF n = 0 THEN "unavailable" ELSE "printed"

\* avg_time = benchmark_speed(num_samples=10) and the lines main prints about
\* it.  It runs before any worker exists.  Without SOURCE_URL_PATTERN the
\* first url = ....format() raises outside the try, and main dies with it.
MainBenchmark ==
    /\ pc = "benchmark"
    /\ \E ts \in {SampleTiles(Min(NUM_SAMPLES, MaxSamples), bbox)} :
          IF ~cfg.url /\ ts # <<>>
          THEN /\ pc' = "crashed"
               /\ UNCHANGED <<times, bench, estimate, store>>
          ELSE \E rs \in [1..Len(ts) -> SampleResults] :
                 \E b \in {BenchLoop([times |-> 0, log |-> <<>>, store |-> store],
                                     ts, rs, 1)} :
                     /\ times' = b.times
                     /\ bench' = b.log
                     /\ estimate' = Estimate(b.times)
                     /\ store' = b.store
                     /\ pc' = "confirm"
    /\ UNCHANGED <<argv, total_tiles, details, stats, stats_lock, pbar, futures,
                   printed, store0, calls>>

\* The tiles the loop of main submits.
Plan == SubmitOrder(MIN_ZOOM, MAX_ZOOM, bbox)

\* The confirmation prompt, skipped under --no-confirm; then tqdm(total=...)
\* and the executor are created.  avg_time is not read again, and the record
\* of what the benchmark did is kept only until the scrape starts.
MainConfirm ==
    /\ pc = "confirm"
    /\ \E answer \in {"yes", "no"} :
          /\ NO_CONFIRM => answer = "yes"
          /\ IF answer = "yes"
             THEN /\ pbar' = [total |-> total_tiles, n |-> 0]
                  /\ pc' = IF Plan = <<>> THEN "wait" ELSE "submit"
                  /\ times' = 0
                  /\ bench' = <<>>
                  /\ estimate' = "none"
             ELSE /\ pc' = "aborted_user"
                  /\ UNCHANGED <<pbar, times, bench, estimate>>
    /\ UNCHANGED <<argv, total_tiles, details, stats, stats_lock, futures,
                   printed, store, store0, calls>>

\* futures.append(executor.submit(upload_tile, z, x, y, pbar)): one tile of the
\* nested loops; after the last one main goes on to wait.
MainSubmit ==
    /\ pc = "submit"
    /\ \E plan \in {Plan} :
          /\ Len(futures) < Len(plan)
          /\ futures' = Append(futures, NewJob(plan[Len(futures) + 1]))
          /\ pc' = IF Len(futures) + 1 = Len(plan) THEN "wait" ELSE "submit"
    /\ UNCHANGED <<argv, total_tiles, details, times, bench, estimate,
                   stats, stats_lock, pbar, printed, store, store0, calls>>

\* A future is done when its call returned or raised.
FutureDone(job) == job.pc \in {"done", "raised"}

\* concurrent.futures.wait(futures) returns once every future is done.
MainWait ==
    /\ pc = "wait"
    /\ \A j \in 1..Len(futures) : FutureDone(futures[j])
    /\ pc' = "summary"
    /\ UNCHANGED <<argv, total_tiles, details, times, bench, estimate,
                   stats, stats_lock, pbar, futures, printed, store, store0,
                   calls>>

\* The summary prints the four counters.
MainSummary ==
    /\ pc = "summary"
    /\ printed' = stats
    /\ pc' = "exited"
    /\ UNCHANGED <<argv, total_tiles, details, times, bench, estimate,
                   stats, stats_lock, pbar, futures, store, store0, calls>>

Ended == pc \in {"dry_done", "aborted_config", "aborted_user", "crashed", "exited"}

\* The program is run again with the same arguments: a new process, whose
\* module-level state is fresh, against the bucket as the last run left it.
Rerun ==
    /\ Ended
    /\ pc' = "entry"
    /\ total_tiles' = 0
    /\ details' = <<>>
    /\ times' = 0
    /\ bench' = <<>>
    /\ estimate' = "none"
    /\ stats' = ZeroStats
    /\ stats_lock' = 0
    /\ pbar' = [total |-> 0, n |-> 0]
    /\ futures' = <<>>
    /\ printed' = ZeroStats
    /\ store0' = store
    /\ calls' = 0
    /\ UNCHANGED <<argv, store>>

\* main has returned.
Returned == pc \in {"aborted_config", "aborted_user", "exited"}

\* main() is called again in the same process, by a program that imported the
\* module: the locals of main are new, the module-level stats is what the
\* last call left.
MainAgain ==
    /\ Returned
    /\ calls < MaxCalls
    /\ pc' = "entry"
    /\ total_tiles' = 0
    /\ details' = <<>>
    /\ times' = 0
    /\ bench' = <<>>
    /\ estimate' = "none"
    /\ pbar' = [total |-> 0, n |-> 0]
    /\ futures' = <<>>
    /\ store0' = store
    /\ UNCHANGED <<argv, stats, stats_lock, printed, store, calls>>

(***************************************************************************)
(* The worker threads: one upload_tile call per job.                       *)
(***************************************************************************)
\* check_exists answering False where head_object succeeded.
check_exists_false(r) ==
    CASE r = "exists"          -> "False"
      [] r = "404"             -> "False"
      [] r = "client_error"    -> "False"
      [] r = "other_exception" -> "raise"

\* check_exists answering True on a ClientError that is not a 404.
check_exists_errorTrue(r) ==
    CASE r = "exists"          -> "True"
      [] r = "404"             -> "False"
      [] r = "client_error"    -> "True"
      [] r = "other_exception" -> "raise"

\* check_exists: what it does with head_object's result r.  Only ClientError
\* is caught; any other exception leaves check_exists, and upload_tile, which
\* calls it outside its try.
check_exists(r) ==
    CASE r = "exists"          -> "True"
      [] r = "404"             -> "False"
      [] r = "client_error"    -> "False"
      [] r = "other_exception" -> "raise"

\* AfterAttempt without the test on attempt: it sleeps after the last pass too.
AfterAttempt_sleepsLast(job) ==
    IF job.attempt < MAX_RETRIES - 1
    THEN [job EXCEPT !.pc = "sleep"]
    ELSE [job EXCEPT !.sleeps = @ + 1, !.pc = "report", !.result = "failed"]

\* The end of one pass of the retry loop that did not return: sleep when
\* attempts are left, else fall out of the loop to the failed outcome.
AfterAttempt(job) ==
    IF job.attempt < MAX_RETRIES - 1
    THEN [job EXCEPT !.pc = "sleep"]
    ELSE [job EXCEPT !.pc = "report", !.result = "failed"]

\* OnResponse without the 404 branch: a 404 is logged and retried like any
\* other status.
OnResponse_retries404(job, r) ==
    LET j1 == [job EXCEPT !.gets = @ + 1,
                          !.got404 = @ \/ r = "404",
                          !.onlyTimeouts = @ /\ r = "timeout",
                          !.transients = IF r \in Transient THEN @ + 1 ELSE @]
    IN  CASE r = "200" -> [j1 EXCEPT !.pc = "put", !.body = "bytes"]
          [] OTHER     -> AfterAttempt([j1 EXCEPT !.logs = @ + 1])

\* OnResponse without the test on len(content): an empty body is written too.
OnResponse_writesEmpty(job, r) ==
    LET j1 == [job EXCEPT !.gets = @ + 1,
                          !.got404 = @ \/ r = "404",
                          !.onlyTimeouts = @ /\ r = "timeout",
                          !.transients = IF r \in Transient THEN @ + 1 ELSE @]
    IN  CASE r = "200"       -> [j1 EXCEPT !.pc = "put", !.body = "bytes"]
          [] r = "200_empty" -> [j1 EXCEPT !.pc = "put", !.body = "empty"]
          [] r = "404"       -> [j1 EXCEPT !.logs = @ + 1, !.pc = "report",
                                           !.result = "not_found"]
          [] OTHER           -> AfterAttempt([j1 EXCEPT !.logs = @ + 1])

\* One requests.get and the branch on its result r.  A 200 with content goes
\* on to put_object; an empty 200, any other status, a timeout and any other
\* exception each write one log entry and end the pass; a 404 writes one log
\* entry and ends the job.
OnResponse(job, r) ==
    LET j1 == [job EXCEPT !.gets = @ + 1,
                          !.got404 = @ \/ r = "404",
                          !.onlyTimeouts = @ /\ r = "timeout",
                          !.transients = IF r \in Transient THEN @ + 1 ELSE @]
    IN  CASE r = "200"       -> [j1 EXCEPT !.pc = "put", !.body = "bytes"]
          [] r = "200_empty" -> AfterAttempt([j1 EXCEPT !.logs = @ + 1])
          [] r = "404"       -> [j1 EXCEPT !.logs = @ + 1, !.pc = "report",
                                           !.result = "not_found"]
          [] OTHER           -> AfterAttempt([j1 EXCEPT !.logs = @ + 1])

\* OnPut going on to the success outcome when put_object raised.
OnPut_successOnError(job, r) ==
    LET j1 == [job EXCEPT !.puts = @ + 1,
                          !.emptyPuts = IF job.body = "empty" THEN @ + 1 ELSE @,
                          !.body = "none"]
    IN  IF r = "ok"
        THEN [j1 EXCEPT !.wrote = @ + 1, !.pc = "report", !.result = "success"]
        ELSE [j1 EXCEPT !.pc = "report", !.result = "success"]

\* One put_object of content and what follows its result r: the success
\* outcome when it returned; when it raised, except Exception writes one log
\* entry and the pass ends.
OnPut(job, r) ==
    LET j1 == [job EXCEPT !.puts = @ + 1,
                          !.emptyPuts = IF job.body = "empty" THEN @ + 1 ELSE @,
                          !.body = "none"]
    IN  IF r = "ok"
        THEN [j1 EXCEPT !.wrote = @ + 1, !.pc = "report", !.result = "success"]
        ELSE AfterAttempt([j1 EXCEPT !.logs = @ + 1])

\* time.sleep(RETRY_DELAY), then the next pass of the loop.
OnSleep(job) ==
    [job EXCEPT !.sleeps = @ + 1, !.attempt = @ + 1, !.pc = "fetch"]

\* with stats_lock: entered without waiting for the lock to be free.
LockFree_always(lock) == TRUE

\* with stats_lock: a thread enters when no thread holds the lock.
LockFree(lock) == lock = 0

\* update_stats counting every outcome as a success.
update_stats_success(s, key) == [s EXCEPT !["success"] = @ + 1]

\* update_stats(key): stats[key] += 1, the store half of the statement: s is
\* stats with the value the load half read in s[key].
update_stats(s, key) == [s EXCEPT ![key] = @ + 1]

\* if pbar: pbar.update(1).  A tqdm bar is true when its total is positive.
PbarUpdate(bar) == IF bar.total > 0 THEN [bar EXCEPT !.n = @ + 1] ELSE bar

Running(job) == job.pc \notin {"queued", "done", "raised"}

NumRunning == Cardinality({j \in 1..Len(futures) : Running(futures[j])})

\* A pool thread takes the oldest queued job and enters upload_tile, which
\* formats the url and the key.
Start(j) ==
    /\ futures[j].pc = "queued"
    /\ \A i \in 1..(j - 1) : futures[i].pc # "queued"
    /\ NumRunning < MAX_WORKERS
    /\ futures' = [futures EXCEPT ![j] =
                     IF cfg.url
                     THEN [@ EXCEPT !.pc = "check", !.key = S3Key(futures[j].tile)]
                     ELSE [@ EXCEPT !.pc = "raised"]]
    /\ UNCHANGED <<argv, pc, total_tiles, details, times, bench, estimate,
                   stats, stats_lock, pbar, printed, store, store0, calls>>

\* if check_exists(s3_key): ...  A ClientError other than a 404 is printed as
\* a [WARNING] line, not logged.
Check(j) ==
    /\ futures[j].pc = "check"
    /\ \E r \in HeadResults(futures[j].key, store) :
          LET ret == check_exists(r)
              j1  == [futures[j] EXCEPT
                         !.head = r,
                         !.warnings = IF r = "client_error" THEN @ + 1 ELSE @]
          IN  futures' = [futures EXCEPT ![j] =
                  CASE ret = "True"  -> [j1 EXCEPT !.pc = "report", !.result = "skipped"]
                    [] ret = "False" -> [j1 EXCEPT !.pc = "fetch"]
                    [] ret = "raise" -> [j1 EXCEPT !.pc = "raised"]]
    /\ UNCHANGED <<argv, pc, total_tiles, details, times, bench, estimate,
                   stats, stats_lock, pbar, printed, store, store0, calls>>

\* response = requests.get(url, stream=True, timeout=15) and the branch on it.
Fetch(j) ==
    /\ futures[j].pc = "fetch"
    /\ \E r \in SourceResults :
          futures' = [futures EXCEPT ![j] = OnResponse(futures[j], r)]
    /\ UNCHANGED <<argv, pc, total_tiles, details, times, bench, estimate,
                   stats, stats_lock, pbar, printed, store, store0, calls>>

\* s3_client.put_object(Bucket=..., Key=s3_key, Body=content, ...)
Put(j) ==
    /\ futures[j].pc = "put"
    /\ \E r \in PutResults :
          /\ futures' = [futures EXCEPT ![j] = OnPut(futures[j], r)]
          /\ store' = IF r = "ok" THEN store \cup {futures[j].key} ELSE store
    /\ UNCHANGED <<argv, pc, total_tiles, details, times, bench, estimate,
                   stats, stats_lock, pbar, printed, store0, calls>>

\* if attempt < MAX_RETRIES - 1: time.sleep(RETRY_DELAY)
Sleep(j) ==
    /\ futures[j].pc = "sleep"
    /\ futures' = [futures EXCEPT ![j] = OnSleep(futures[j])]
    /\ UNCHANGED <<argv, pc, total_tiles, details, times, bench, estimate,
                   stats, stats_lock, pbar, printed, store, store0, calls>>

\* update_stats(outcome), first half: the thread enters stats_lock and loads
\* stats[outcome].
Lock(j) ==
    /\ futures[j].pc = "report"
    /\ futures[j].read = -1
    /\ LockFree(stats_lock)
    /\ stats_lock' = j
    /\ futures' = [futures EXCEPT ![j].read = stats[futures[j].result]]
    /\ UNCHANGED <<argv, pc, total_tiles, details, times, bench, estimate,
                   stats, pbar, printed, store, store0, calls>>

\* update_stats(outcome), second half: the thread stores the incremented
\* value and leaves stats_lock; then upload_tile logs the failed outcome,
\* calls pbar.update(1) and returns.
Report(j) ==
    /\ futures[j].pc = "report"
    /\ futures[j].read # -1
    /\ stats' = update_stats([stats EXCEPT ![futures[j].result] = futures[j].read],
                             futures[j].result)
    /\ stats_lock' = 0
    /\ pbar' = PbarUpdate(pbar)
    /\ futures' = [futures EXCEPT ![j] =
                     [@ EXCEPT !.pc = "done", !.read = -1, !.reports = @ + 1,
                               !.logs = IF futures[j].result = "failed"
                                        THEN @ + 1 ELSE @,
                               !.ticks = IF pbar.total > 0 THEN @ + 1 ELSE @]]
    /\ UNCHANGED <<argv, pc, total_tiles, details, times, bench, estimate,
                   printed, store, store0, calls>>

Worker ==
    \E j \in 1..Len(futures) :
        \/ Start(j)
        \/ Check(j)
        \/ Fetch(j)
        \/ Put(j)
        \/ Sleep(j)
        \/ Lock(j)
        \/ Report(j)

Main ==
    \/ DryRun
    \/ MainEnter
    \/ MainPlan
    \/ MainBenchmark
    \/ MainConfirm
    \/ MainSubmit
    \/ MainWait
    \/ MainSummary

Next == Main \/ Worker \/ Rerun

Spec == Init /\ [][Next]_vars

(***************************************************************************)
(* The main thread alone, from the start of the process to the end of the  *)
(* submission loop, for bounding boxes other than the program's own: the   *)
(* corners are drawn in any order, one latitude lies beyond the            *)
(* Web-Mercator limit.  Every source and store call of the benchmark may   *)
(* still do anything.                                                      *)
(***************************************************************************)
\* Longitudes -180, 94.5, 141.5, 180 and latitudes -85, -11.5, 6, 85, 89.
LonSet == {-360, 189, 283, 360}

LatSet == {-170, -23, 12, 170, 178}

Boxes == { <<w, s, e, n>> : w \in LonSet, s \in LatSet, e \in LonSet, n \in LatSet }

InitPlan ==
    \E box \in Boxes, lo \in 0..MaxPlanZoom, hi \in 0..MaxPlanZoom, dr \in BOOLEAN :
        ProcessStart([key_id |-> TRUE, bucket |-> TRUE, url |-> TRUE],
                     box, lo, hi, 1, TRUE, dr, {})

NextPlan ==
    \/ DryRun
    \/ MainEnter
    \/ MainPlan
    \/ MainBenchmark
    \/ MainConfirm
    \/ MainSubmit

SpecPlan == InitPlan /\ [][NextPlan]_vars

(***************************************************************************)
(* The module imported by another program that calls main() more than      *)
(* once: one process, one module-level stats, one worker thread.           *)
(***************************************************************************)
InitAgain ==
    \E lo \in 0..MaxZoomArg, hi \in 0..MaxZoomArg, nc \in BOOLEAN :
        /\ calculate_tile_count(lo, hi, BOUNDING_BOX).total \in PlanSizes
        /\ ProcessStart([key_id |-> TRUE, bucket |-> TRUE, url |-> TRUE],
                        BOUNDING_BOX, lo, hi, 1, nc, FALSE, {})

NextAgain ==
    \/ MainEnter
    \/ MainPlan
    \/ MainBenchmark
    \/ MainConfirm
    \/ MainSubmit
    \/ MainWait
    \/ MainSummary
    \/ Worker
    \/ MainAgain

SpecAgain == InitAgain /\ [][NextAgain]_vars

(***************************************************************************)
(* Properties.                                                             *)
(***************************************************************************)
Jobs == 1..Len(futures)

StatsSum(s) == s.success + s.skipped + s.not_found + s.failed

\* C1: once main is past concurrent.futures.wait, the four counters add up to
\* the number of jobs submitted, whatever the existence checks, the source and
\* the store writes did.
C1_StatsSumEqualsJobs ==
    pc \in {"summary", "exited"} => StatsSum(stats) = Len(futures)

\* C2: every job ends with exactly one outcome: no error leaves the job, a job
\* that has returned has one of the four outcomes, counted once and ticked once
\* on the progress bar, and a job that has not returned has counted and ticked
\* nothing.
C2_ExactlyOneOutcomePerJob ==
    \A j \in Jobs :
        LET job == futures[j]
        IN  /\ job.pc # "raised"
            /\ job.pc = "done" =>
                  job.result \in Outcomes /\ job.reports = 1 /\ job.ticks = 1
            /\ job.pc # "done" => job.reports = 0 /\ job.ticks = 0

\* C3: a job whose existence check reported that the key exists goes straight
\* to the skipped outcome: it makes no source call, no store write and no
\* retry delay.
C3_ExistsMeansSkippedWithoutFetch ==
    \A j \in Jobs :
        LET job == futures[j]
        IN  job.head = "exists" =>
              /\ job.pc \in {"report", "done"}
              /\ job.result = "skipped"
              /\ job.gets = 0
              /\ job.puts = 0
              /\ job.sleeps = 0

\* A job was skipped after head_object found its key.
C3_Witness ==
    \E j \in Jobs :
        /\ futures[j].head = "exists"
        /\ futures[j].pc = "done"
        /\ futures[j].result = "skipped"

\* C4: once the source has answered 404, the job is at its not_found outcome:
\* the 404 was its last source call (one call per pass, so exactly one when the
\* first answer is a 404), no retry delay follows it (one delay per earlier
\* pass), and no store write follows it (at most one write per earlier pass).
C4_NotFoundEndsTheJob ==
    \A j \in Jobs :
        LET job == futures[j]
        IN  job.got404 =>
              /\ job.pc \in {"report", "done"}
              /\ job.result = "not_found"
              /\ job.gets = job.attempt + 1
              /\ job.sleeps = job.attempt
              /\ job.puts <= job.attempt

\* One job met a 404 on its first source call and made no other; another met
\* it on its second.
C4_Witness ==
    \E j \in Jobs, k \in Jobs :
        /\ futures[j].pc = "done" /\ futures[j].got404
        /\ futures[j].gets = 1 /\ futures[j].puts = 0 /\ futures[j].sleeps = 0
        /\ futures[k].pc = "done" /\ futures[k].got404 /\ futures[k].gets = 2

\* C5: with MAX_RETRIES = 3, a job for which check_exists answered False and
\* whose every source call timed out calls the source three times and ends
\* failed; before each call it has slept once per earlier call, and after the
\* third call it does not sleep; it writes nothing.
C5_TimeoutsFailAfterThreeCalls ==
    /\ MAX_RETRIES = 3
    /\ \A j \in Jobs :
        LET job == futures[j]
        IN  (job.head \in {"404", "client_error"} /\ job.onlyTimeouts) =>
              /\ job.pc \in {"fetch", "sleep", "report", "done"}
              /\ job.pc = "fetch" => job.gets < 3 /\ job.sleeps = job.gets
              /\ job.pc = "sleep" => job.gets < 3 /\ job.sleeps = job.gets - 1
              /\ job.pc \in {"report", "done"} =>
                    job.result = "failed" /\ job.gets = 3 /\ job.sleeps = 2
              /\ job.puts = 0

\* A job whose key is absent has returned failed after three timeouts.
C5_Witness ==
    \E j \in Jobs :
        /\ futures[j].pc = "done"
        /\ futures[j].head = "404"
        /\ futures[j].onlyTimeouts
        /\ futures[j].gets = 3
        /\ futures[j].sleeps = 2
        /\ futures[j].result = "failed"

\* Every planned tile was in the bucket when this process started: an earlier
\* run has stored the whole plan.
PlanStoredBefore ==
    /\ Plan # <<>>
    /\ \A i \in 1..Len(Plan) : S3Key(Plan[i]) \in store0

\* No existence check of this run has failed.
ChecksErrorFree ==
    \A j \in Jobs : futures[j].head \notin {"client_error", "other_exception"}

\* No store call of this run has failed.
StoreErrorFree ==
    /\ ChecksErrorFree
    /\ \A i \in 1..Len(bench) : bench[i].put # "exception"

C7_WaitReturnsAfterEveryOutcome ==
    pc \in {"summary", "exited"} =>
        \A j \in Jobs : futures[j].pc = "done" /\ futures[j].result \in Outcomes

\* The sum over details of (end_x - start_x + 1) * (end_y - start_y + 1).
RECURSIVE SumAreas(_)
SumAreas(ds) ==
    IF ds = <<>> THEN 0
    ELSE (Head(ds).end_x - Head(ds).start_x + 1)
             * (Head(ds).end_y - Head(ds).start_y + 1) + SumAreas(Tail(ds))

\* How many submitted jobs are for tile (z, x, y).
Submitted(z, x, y) ==
    Cardinality({j \in Jobs : futures[j].tile = [z |-> z, x |-> x, y |-> y]})

\* C8: the total of calculate_tile_count is the sum of the per-zoom rectangle
\* areas, it is known before anything is fetched, it is the total of the
\* progress bar, and the loop of main submits each (z, x, y) of each per-zoom
\* rectangle exactly once and nothing else: never more jobs than the total,
\* and exactly the total when the loop is over.
C8_PlanCountEqualsSubmitted ==
    /\ pc \in {"entry", "plan"} => bench = <<>> /\ futures = <<>>
    /\ pc \in {"benchmark", "confirm", "submit", "wait"} =>
          /\ total_tiles = SumAreas(details)
          /\ Len(details) = Max(MAX_ZOOM - MIN_ZOOM + 1, 0)
          /\ \A i \in 1..Len(details) : details[i].z = MIN_ZOOM + i - 1
    /\ pc \in {"submit", "wait"} =>
          /\ pbar.total = total_tiles
          /\ Len(futures) <= total_tiles
          /\ \A j \in Jobs :
                \E i \in 1..Len(details) :
                    /\ futures[j].tile.z = details[i].z
                    /\ futures[j].tile.x \in details[i].start_x..details[i].end_x
                    /\ futures[j].tile.y \in details[i].start_y..details[i].end_y
          /\ \A j \in Jobs, k \in Jobs :
                futures[j].tile = futures[k].tile => j = k
    /\ pc = "wait" =>
          /\ Len(futures) = total_tiles
          /\ \A i \in 1..Len(details) :
                \A x \in details[i].start_x..details[i].end_x,
                   y \in details[i].start_y..details[i].end_y :
                    Submitted(details[i].z, x, y) = 1

\* The loop has submitted the program's own box over three zoom levels.
C8_Witness ==
    /\ pc = "wait"
    /\ bbox = BOUNDING_BOX
    /\ MIN_ZOOM = 0
    /\ MAX_ZOOM = 2
    /\ Len(futures) = 5
    /\ total_tiles = 5

\* Longitude -180 to 180, latitude -85 to 85.
GlobeBox == <<-360, -170, 360, 170>>

\* C9: for the whole globe, the jobs submitted for zoom 1 are the four tiles
\* (0,0), (0,1), (1,0), (1,1), each once, and no other.
C9_GlobeZoomOneIsTwoByTwo ==
    (bbox = GlobeBox /\ MIN_ZOOM <= 1 /\ 1 <= MAX_ZOOM /\ pc = "wait") =>
        /\ \A x \in 0..1, y \in 0..1 : Submitted(1, x, y) = 1
        /\ \A j \in Jobs :
              futures[j].tile.z = 1 =>
                  futures[j].tile.x \in 0..1 /\ futures[j].tile.y \in 0..1

\* C10: at zoom 0, for a box with longitudes in [-180, 180] and latitudes
\* inside the Web-Mercator limits, calculate_tile_count reports the single
\* tile (0, 0).
C10_ZoomZeroIsOneTile ==
    (/\ bbox[1] \in -360..360 /\ bbox[3] \in -360..360
     /\ bbox[2] \in -170..170 /\ bbox[4] \in -170..170) =>
        \A i \in 1..Len(details) :
            details[i].z = 0 =>
                /\ details[i].count = 1
                /\ details[i].start_x = 0 /\ details[i].end_x = 0
                /\ details[i].start_y = 0 /\ details[i].end_y = 0

\* 1 when b holds, else 0.
Count(b) == IF b THEN 1 ELSE 0

\* C11: missing_tiles.log holds an entry for every job that ended skipped,
\* not_found or failed, one for every existence-check error other than
\* not-found, and one for every source answer that ended a pass without a
\* return (an empty 200 body among them).
C11_LogHasEveryNonSuccessAndWarning ==
    \A j \in Jobs :
        LET job == futures[j]
        IN  job.logs >= job.transients
                          + Count(job.head = "client_error")
                          + Count(job.pc = "done"
                                    /\ job.result \in {"skipped", "not_found", "failed"})

\* C12: when the key id, the bucket or the source URL pattern is not set, the
\* program stops at its entry: no tile plan is computed, the benchmark makes
\* no source or store call, no job is submitted; with --dry-run as without.
C12_MissingConfigAbortsBeforePlan ==
    (~cfg.key_id \/ ~cfg.bucket \/ ~cfg.url) =>
        /\ pc \in {"entry", "aborted_config"}
        /\ details = <<>>
        /\ bench = <<>>
        /\ futures = <<>>

\* The value of one digit character.
DigitValue(c) == CHOOSE d \in 0..9 : DigitChars[d + 1] = c

IsDigit(c) == \E d \in 0..9 : DigitChars[d + 1] = c

\* The number a non-empty sequence of digit characters writes.
RECURSIVE ParseDigits(_)
ParseDigits(cs) ==
    IF Len(cs) = 1 THEN DigitValue(cs[1])
    ELSE 10 * ParseDigits(SubSeq(cs, 1, Len(cs) - 1)) + DigitValue(cs[Len(cs)])

\* cs writes an int: an optional minus sign, then at least one digit.
IsInt(cs) ==
    LET ds == IF cs # <<>> /\ cs[1] = "-" THEN Tail(cs) ELSE cs
    IN  ds # <<>> /\ \A i \in 1..Len(ds) : IsDigit(ds[i])

ParseInt(cs) == IF cs[1] = "-" THEN 0 - ParseDigits(Tail(cs)) ELSE ParseDigits(cs)

\* How a tile consumer reads a key back: the text before the first "/" is the
\* prefix, then come three ints separated by "/", the last one followed by
\* ".png".  A key of any other shape reads as <<"malformed">>.
ParseKey(key) ==
    LET sl == {i \in 1..Len(key) : key[i] = "/"}
    IN  IF Cardinality(sl) # 3 \/ key[Len(key)] # ".png"
        THEN <<"malformed">>
        ELSE LET s1 == CHOOSE i \in sl : \A k \in sl : i <= k
                 s3 == CHOOSE i \in sl : \A k \in sl : i >= k
                 s2 == CHOOSE i \in sl : i # s1 /\ i # s3
                 zs == SubSeq(key, s1 + 1, s2 - 1)
                 xs == SubSeq(key, s2 + 1, s3 - 1)
                 ys == SubSeq(key, s3 + 1, Len(key) - 1)
             IN  IF s1 # 2 \/ ~IsInt(zs) \/ ~IsInt(xs) \/ ~IsInt(ys)
                 THEN <<"malformed">>
                 ELSE <<key[1], ParseInt(zs), ParseInt(xs), ParseInt(ys)>>

\* Tiles with one-digit, two-digit, three-digit and negative coordinates.
KeyTiles == [z : {0, 1, 12}, x : {-1, 0, 1, 12, 21, 211}, y : {-1, 0, 1, 12, 21}]

\* C13: the key of a tile reads back as (DESTINATION_PREFIX, z, x, y), in
\* upload_tile as in benchmark_speed, which format it alike; distinct tiles
\* have distinct keys; and no two jobs of a run work on the same key.
C13_KeyIsPrefixZXY ==
    /\ \A j \in Jobs :
          futures[j].key # <<>> =>
              ParseKey(futures[j].key) =
                  <<DESTINATION_PREFIX, futures[j].tile.z,
                    futures[j].tile.x, futures[j].tile.y>>
    /\ \A i \in 1..Len(bench) :
          /\ ParseKey(bench[i].key) =
                 <<DESTINATION_PREFIX, bench[i].tile.z,
                   bench[i].tile.x, bench[i].tile.y>>
          /\ bench[i].key = S3Key(bench[i].tile)
    /\ \A j \in Jobs, k \in Jobs :
          (j # k /\ futures[j].key # <<>>) => futures[j].key # futures[k].key
    /\ pc = "entry" =>
          \A t1 \in KeyTiles :
              /\ BenchKey(t1) = S3Key(t1)
              /\ \A t2 \in KeyTiles : S3Key(t1) = S3Key(t2) => t1 = t2

\* Two jobs of one run have each written their own key, and the two keys are
\* in the bucket.
C13_Witness ==
    /\ Len(futures) = 2
    /\ futures[1].wrote = 1 /\ futures[2].wrote = 1
    /\ futures[1].key # futures[2].key
    /\ {futures[1].key, futures[2].key} \subseteq store

\* The passes of the retry loop the job has ended without returning.
PassesEnded(job) ==
    CASE job.pc \in {"fetch", "put"}                       -> job.attempt
      [] job.pc = "sleep"                                  -> job.attempt + 1
      [] job.pc \in {"report", "done"} /\ job.result = "failed" -> job.attempt + 1
      [] OTHER                                             -> job.attempt

\* put_object calls of the job that raised.
PutFailures(job) == job.puts - job.wrote

C16_SuccessOnlyAfterCompletedWrite ==
    /\ \A j \in Jobs :
        LET job == futures[j]
        IN  /\ job.result = "success" =>
                  /\ job.wrote = 1
                  /\ job.key \in store
                  /\ job.pc \in {"report", "done"}
            /\ job.wrote = 1 => job.result = "success"
            /\ job.gets = job.transients + Count(job.got404)
                            + job.puts + Count(job.pc = "put")
            /\ job.transients + PutFailures(job) = PassesEnded(job)
            /\ PutFailures(job) = MAX_RETRIES =>
                  /\ job.pc \in {"report", "done"}
                  /\ job.result = "failed"
                  /\ job.head = "404" => job.key \notin store
    /\ stats.success <= Cardinality({j \in Jobs : futures[j].wrote = 1})

\* The write of each of a job's three attempts raised: the job returned failed
\* and its key is not in the bucket.
C16_Witness ==
    \E j \in Jobs :
        /\ futures[j].pc = "done"
        /\ futures[j].head = "404"
        /\ futures[j].gets = MAX_RETRIES
        /\ futures[j].puts = MAX_RETRIES
        /\ futures[j].wrote = 0
        /\ futures[j].result = "failed"
        /\ futures[j].key \notin store
        /\ stats.success = 0

\* C17: at every moment each counter is the number of update_stats calls
\* completed for that outcome, whatever the interleaving of the workers.
C17_CountersEqualCompletedUpdates ==
    \A k \in Outcomes :
        stats[k] = Cardinality({j \in Jobs : /\ futures[j].reports = 1
                                             /\ futures[j].result = k})

\* While one job has returned an outcome, another with the same outcome is
\* inside stats_lock and has read the counter the first one wrote.
C17_Witness ==
    \E j \in Jobs, k \in Jobs :
        /\ j # k
        /\ futures[j].pc = "done"
        /\ futures[k].pc = "report"
        /\ futures[k].result = futures[j].result
        /\ stats_lock = k
        /\ futures[k].read = 1

\* C18: when main starts a run the four counters are 0, and the counts the
\* summary prints are the outcomes of that run's jobs, also when main is
\* called again in the same process.
C18_StatsResetPerInvocation ==
    /\ pc \in {"plan", "benchmark", "confirm"} => stats = ZeroStats
    /\ pc = "exited" =>
          \A k \in Outcomes :
              printed[k] = Cardinality({j \in Jobs : /\ futures[j].pc = "done"
                                                     /\ futures[j].result = k})

\* No benchmark sample fetched a tile and stored it.
NoRoundTrip ==
    \A i \in 1..Len(bench) :
        ~(bench[i].get \in {"200", "200_empty"} /\ bench[i].put = "ok")

\* C19: with the source URL pattern set the benchmark does not end the run,
\* and when no sample completed a fetch and store, main reaches the
\* confirmation step having reported the estimate as unavailable.
C19_NoSampleMeansNoEstimate ==
    /\ cfg.url => pc # "crashed"
    /\ (pc = "confirm" /\ NoRoundTrip) => estimate = "unavailable"

\* C20: when the user declines the prompt, the bucket is as it was when main
\* was entered and no job has been submitted.
C20_DeclineLeavesStoreUnchanged ==
    pc = "aborted_user" => store = store0 /\ futures = <<>>

\* Tile t lies in the plan of this run: its zoom is one of the planned zoom
\* levels and its x and y are inside that level's rectangle.
InPlan(t) ==
    \E i \in 1..Len(details) :
        /\ details[i].z = t.z
        /\ t.x \in details[i].start_x..details[i].end_x
        /\ t.y \in details[i].start_y..details[i].end_y

\* C21: every write made to the bucket during a run of main, by a benchmark
\* sample or by a job, is for a tile of that run's plan.
C21_WritesStayInsidePlan ==
    /\ \A i \in 1..Len(bench) : bench[i].put = "ok" => InPlan(bench[i].tile)
    /\ \A j \in Jobs : futures[j].wrote = 1 => InPlan(futures[j].tile)

\* C22: every object written during a run of main, by a benchmark sample or
\* by a job, has a body with content that a 200 answer for that tile
\* delivered, and no key that was in the bucket when the run started and
\* whose existence check (if any was made) did not fail is written again.
C22_WritesAreNonEmptyAndNeverOverwrite ==
    /\ \A i \in 1..Len(bench) :
          bench[i].put = "ok" =>
              bench[i].get = "200" /\ bench[i].key \notin store0
    /\ \A j \in Jobs :
          LET job == futures[j]
          IN  /\ job.emptyPuts = 0
              /\ job.puts > 0 => job.gets >= job.puts
              /\ (job.puts > 0 /\ job.head # "client_error") =>
                    job.key \notin store0

====
